---- MODULE Spec2Model ----
(***************************************************************************)
(* The channel synchronisation logic of the chat client (class AuthUI of   *)
(* auth-ui.js): the auth-state handler, loadMessages / clearMessageListener*)
(* (the message subscription), loadOnlineUsers (the presence subscription),*)
(* switchChannel, and the two snapshot callbacks that fill allMessages and  *)
(* onlineUsers.                                                            *)
(*                                                                         *)
(* The remote store (Firestore) is the environment.  It keeps a registry   *)
(* of the listeners the program registered with onSnapshot and delivers,   *)
(* to a registered listener, the result of the listener's query over the   *)
(* documents it holds at that moment; which documents it holds is not      *)
(* constrained, so every delivery draws them from a bounded universe.      *)
(***************************************************************************)
EXTENDS Naturals, Sequences, FiniteSets

\* ------------------------------------------------------------- bounds
MaxDocs     == 2   \* document ids of the messages collection: 1..MaxDocs
MaxTime     == 2   \* server timestamps: 1..MaxTime
MaxHandles  == 3   \* message subscriptions ever opened in one run
MaxPresence == 2   \* presence subscriptions ever opened in one run
MaxWrites   == 2   \* addDoc calls awaited at the same time
MaxLog      == 2   \* messages of the log that is searched
MaxTerm     == 2   \* characters typed into the search box

\* ---------------------------------------------------------- constants
NoUser         == "null"
Users          == {"u1", "u2"}
Channels       == {"ideas", "support"}
DefaultChannel == "ideas"
NoListener     == 0

DocIds == 1..MaxDocs
Times  == 1..MaxTime

\* A message document.  id stands for the document's identity and payload
\* (text, userId, displayName, avatar), which differ from document to document.
Docs == [id : DocIds, channel : Channels, timestamp : Times]

\* The contents the messages collection can have: no two documents share an id.
DocSets ==
    UNION { { {[id |-> i, channel |-> f[i][1], timestamp |-> f[i][2]] : i \in I} :
              f \in [I -> Channels \X Times] } : I \in SUBSET DocIds }

VARIABLES
    authState,        \* what Firebase Auth last reported: "unknown" before the first event
    currentUser,      \* this.currentUser
    currentChannel,   \* this.currentChannel
    messageListener,  \* this.messageListener: NoListener or the handle onSnapshot returned
    allMessages,      \* this.allMessages
    onlineUsers,      \* this.onlineUsers
    msgSubs,          \* remote registry of message listeners, indexed by handle
    presenceSubs,     \* number of presence listeners registered and never unsubscribed
    uncaught,         \* an exception escaped a snapshot callback
    lastSnapshot,     \* history: <<S>> when S is the last snapshot handed to the message callback
    lastDelivery,     \* history (SpecLog): what the last message snapshot was to the log it met
    lastPresence,     \* history (SpecPresence): <<P, u, d>>, the last presence snapshot, the user
                      \* it met, and whether the set it met held an id that is not in P
    lastSwitch,       \* history (SpecSwitch): <<b, n>>, whether a user was signed in when
                      \* switchChannel was called last, and the parity of its calls
    messageInput,     \* this.messageInput.value
    pendingWrites,    \* the addDoc calls of sendMessage that are awaited
    lastSend,         \* how the last sendMessage call ended: "ignored" (returned at the
                      \* validation), "sent" (input cleared) or "failed" (alert shown)
    lastWrite,        \* history: <<v, n, c, d>>, the remote store's verdict v on the write
                      \* it settled last, the parity n of the writes it has settled, the
                      \* channel c of that write's document and the channel d that was
                      \* current when it settled
    searchInput,      \* this.searchModalInput.value
    searchResults     \* what handleSearch rendered into this.searchResults

sendVars == <<messageInput, pendingWrites, lastSend, lastWrite>>

searchVars == <<searchInput, searchResults>>

vars == <<authState, currentUser, currentChannel, messageListener, allMessages,
          onlineUsers, msgSubs, presenceSubs, uncaught, lastSnapshot, lastDelivery,
          lastPresence, lastSwitch, sendVars, searchVars>>

\* A registered listener is "live" until its unsubscribe function is called, then
\* "cancelled"; a cancelled listener whose queued notification was still
\* delivered is "drained".  calls counts the calls of its unsubscribe function.
NewListener(channel) == [channel |-> channel, state |-> "live", calls |-> 0]

Live(s) == s.state = "live"

LiveMessageHandles == {h \in DOMAIN msgSubs : Live(msgSubs[h])}

\* ------------------------------------------------------- pure helpers

Before(d, e) ==
    \/ d.timestamp < e.timestamp
    \/ d.timestamp = e.timestamp /\ d.id < e.id

RECURSIVE SortBy(_, _)
SortBy(S, byTimestamp) ==
    IF S = {} THEN <<>>
    ELSE LET m == CHOOSE d \in S : \A e \in S :
                      \/ d = e
                      \/ IF byTimestamp THEN Before(d, e) ELSE d.id < e.id
         IN  <<m>> \o SortBy(S \ {m}, byTimestamp)

\* Bug variant of the query: the orderBy clause left out (documents come by id).
MessagesQueryNoOrderBy(D, channel) ==
    SortBy({d \in D : d.channel = channel}, FALSE)

\* query(messagesRef, where('channel','==',channel), orderBy('timestamp','asc'))
\* evaluated over the documents D.
MessagesQuery(D, channel) ==
    SortBy({d \in D : d.channel = channel}, TRUE)

\* What a listener on the messages of a channel can be handed: the query's result
\* over some contents of the collection.
Snapshots == [channel \in Channels |-> {MessagesQuery(D, channel) : D \in DocSets}]

AllSnapshots == UNION {Snapshots[channel] : channel \in Channels}

\* querySnapshot.forEach(doc => this.allMessages.push(doc.data()))
RECURSIVE ForEachPush(_, _)
ForEachPush(log, snap) ==
    IF snap = <<>> THEN log
    ELSE ForEachPush(Append(log, Head(snap)), Tail(snap))

\* Bug variant of the callback: the log is not emptied before the pushes.
OnMessagesSnapshotNoReset(log, snap) ==
    IF snap = <<>> THEN <<>> ELSE ForEachPush(log, snap)

\* The callback given to onSnapshot by loadMessages: the new value of allMessages.
OnMessagesSnapshot(log, snap) ==
    LET emptied == <<>>
    IN  IF snap = <<>> THEN emptied ELSE ForEachPush(emptied, snap)

\* The unsubscribe function onSnapshot returned for handle h.
Unsubscribe(subs, h) ==
    [subs EXCEPT ![h].state = IF @ = "live" THEN "cancelled" ELSE @,
                 ![h].calls = @ + 1]

\* clearMessageListener: its effect on the remote registry.
SubsAfterClear(listener, subs) ==
    IF listener # NoListener THEN Unsubscribe(subs, listener) ELSE subs

\* ------------------------------------------------------------ actions

Init ==
    /\ authState = "unknown"
    /\ currentUser = NoUser
    /\ currentChannel = DefaultChannel
    /\ messageListener = NoListener
    /\ allMessages = <<>>
    /\ onlineUsers = {}
    /\ msgSubs = <<>>
    /\ presenceSubs = 0
    /\ uncaught = FALSE
    /\ lastSnapshot = <<>>
    /\ lastDelivery = "none"
    /\ lastPresence = <<>>
    /\ lastSwitch = <<FALSE, 0>>
    /\ messageInput = <<>>
    /\ pendingWrites = <<>>
    /\ lastSend = "none"
    /\ lastWrite = <<"none", 0>>
    /\ searchInput = <<>>
    /\ searchResults = [kind |-> "none"]

\* Bug variant of clearMessageListener: the field keeps the handle it called.
ClearMessageListenerKeepsHandle ==
    /\ msgSubs' = SubsAfterClear(messageListener, msgSubs)
    /\ UNCHANGED messageListener

ClearMessageListener ==
    /\ msgSubs' = SubsAfterClear(messageListener, msgSubs)
    /\ messageListener' = NoListener

\* Bug variant of loadMessages: the previous listener is not cleared.
LoadMessagesNoClear(user, channel) ==
    IF user = NoUser
    THEN UNCHANGED <<messageListener, msgSubs>>
    ELSE /\ msgSubs' = Append(msgSubs, NewListener(channel))
         /\ messageListener' = Len(msgSubs) + 1

\* loadMessages, run with this.currentUser = user and this.currentChannel = channel.
LoadMessages(user, channel) ==
    IF user = NoUser
    THEN UNCHANGED <<messageListener, msgSubs>>
    ELSE LET cleared == SubsAfterClear(messageListener, msgSubs)
         IN  /\ msgSubs' = Append(cleared, NewListener(channel))
             /\ messageListener' = Len(cleared) + 1

\* loadOnlineUsers, run with this.currentUser = user: the handle is discarded.
LoadOnlineUsers(user) ==
    IF user = NoUser
    THEN UNCHANGED presenceSubs
    ELSE presenceSubs' = presenceSubs + 1

\* The onAuthStateChanged callback.  Auth reports a change of state: the first
\* event of a page load, a sign-in while signed out, a sign-out while signed in.
OnAuthStateChanged(user) ==
    /\ user # authState
    /\ authState \in Users => user = NoUser
    /\ user # NoUser => Len(msgSubs) < MaxHandles /\ presenceSubs < MaxPresence
    /\ authState' = user
    /\ IF user # NoUser
       THEN /\ currentUser' = user
            /\ LoadMessages(user, currentChannel)
            /\ LoadOnlineUsers(user)
       ELSE /\ currentUser' = NoUser
            /\ ClearMessageListener
            /\ UNCHANGED presenceSubs
    /\ UNCHANGED <<currentChannel, allMessages, onlineUsers, uncaught,
                   lastSnapshot, lastDelivery, lastPresence, lastSwitch, sendVars, searchVars>>

\* Bug variant of switchChannel: the channel is recorded, the messages not reloaded.
SwitchChannelNoReload(channelId) ==
    /\ currentUser # NoUser
    /\ currentChannel' = channelId
    /\ UNCHANGED <<authState, currentUser, allMessages, onlineUsers, msgSubs,
                   messageListener, presenceSubs, uncaught, lastSnapshot,
                   lastDelivery, lastPresence, lastSwitch, sendVars, searchVars>>

\* Bug variant of switchChannel: the presence listener is registered again.
SwitchChannelReloadsPresence(channelId) ==
    IF currentUser = NoUser
    THEN UNCHANGED vars
    ELSE /\ Len(msgSubs) < MaxHandles
         /\ currentChannel' = channelId
         /\ LoadMessages(currentUser, channelId)
         /\ LoadOnlineUsers(currentUser)
         /\ UNCHANGED <<authState, currentUser, allMessages, onlineUsers,
                        uncaught, lastSnapshot, lastDelivery,
                        lastPresence, lastSwitch, sendVars, searchVars>>

\* switchChannel(channelItem), channelId being the item's data-channel.
SwitchChannel(channelId) ==
    IF currentUser = NoUser
    THEN UNCHANGED vars
    ELSE /\ Len(msgSubs) < MaxHandles
         /\ currentChannel' = channelId
         /\ LoadMessages(currentUser, channelId)
         /\ UNCHANGED <<authState, currentUser, allMessages, onlineUsers,
                        presenceSubs, uncaught, lastSnapshot, lastDelivery,
                        lastPresence, lastSwitch, sendVars, searchVars>>

\* Bug variant of switchChannel: the test of this.currentUser left out.
SwitchChannelNoGuard(channelId) ==
    /\ Len(msgSubs) < MaxHandles
    /\ currentChannel' = channelId
    /\ LoadMessages(currentUser, channelId)
    /\ lastSwitch' = <<currentUser # NoUser, 1 - lastSwitch[2]>>
    /\ UNCHANGED <<authState, currentUser, allMessages, onlineUsers,
                   presenceSubs, uncaught, lastSnapshot, lastDelivery,
                   lastPresence, sendVars, searchVars>>

\* switchChannel(channelItem) as above, with the call recorded in lastSwitch.
SwitchChannelTracked(channelId) ==
    IF currentUser = NoUser
    THEN /\ lastSwitch' = <<FALSE, 1 - lastSwitch[2]>>
         /\ UNCHANGED <<authState, currentUser, currentChannel, messageListener,
                        allMessages, onlineUsers, msgSubs, presenceSubs, uncaught,
                        lastSnapshot, lastDelivery, lastPresence, sendVars,
                        searchVars>>
    ELSE /\ Len(msgSubs) < MaxHandles
         /\ currentChannel' = channelId
         /\ LoadMessages(currentUser, channelId)
         /\ lastSwitch' = <<TRUE, 1 - lastSwitch[2]>>
         /\ UNCHANGED <<authState, currentUser, allMessages, onlineUsers,
                        presenceSubs, uncaught, lastSnapshot, lastDelivery,
                        lastPresence, sendVars, searchVars>>

\* The message callback run with the query snapshot snap.
RunMessageCallback(snap) ==
    /\ allMessages' = OnMessagesSnapshot(allMessages, snap)
    /\ lastSnapshot' = <<snap>>

\* What snap is to the log it is applied to: the snapshot applied just before
\* ("repeat"), one that lacks a record of the log ("retract"), or neither.
DeliveryKind(snap) ==
    IF lastSnapshot = <<snap>> THEN "repeat"
    ELSE IF \E i \in DOMAIN allMessages : \A j \in DOMAIN snap : snap[j] # allMessages[i]
         THEN "retract"
         ELSE "extend"

\* The remote store notifies the live message listener h.
Notify(h, snap) ==
    /\ h \in DOMAIN msgSubs
    /\ Live(msgSubs[h])
    /\ snap \in Snapshots[msgSubs[h].channel]
    /\ RunMessageCallback(snap)
    /\ UNCHANGED <<authState, currentUser, currentChannel, messageListener,
                   onlineUsers, msgSubs, presenceSubs, uncaught, lastPresence, lastSwitch,
                   sendVars, searchVars>>

DeliverMessages(h, snap) ==
    /\ Notify(h, snap)
    /\ UNCHANGED lastDelivery

\* The same step, with the history of deliveries recorded.
DeliverMessagesTracked(h, snap) ==
    /\ Notify(h, snap)
    /\ lastDelivery' = DeliveryKind(snap)

\* A notification queued for h before it was unsubscribed is delivered afterwards.
DeliverStaleMessages(h, snap) ==
    /\ h \in DOMAIN msgSubs
    /\ msgSubs[h].state = "cancelled"
    /\ snap \in Snapshots[msgSubs[h].channel]
    /\ RunMessageCallback(snap)
    /\ msgSubs' = [msgSubs EXCEPT ![h].state = "drained"]
    /\ UNCHANGED <<authState, currentUser, currentChannel, messageListener,
                   onlineUsers, presenceSubs, uncaught, lastDelivery, lastPresence, lastSwitch,
                   sendVars, searchVars>>

\* Bug variant of the presence callback: the set is not cleared first.
OnPresenceSnapshotNoClear(online, P, user) ==
    online \cup {u \in P : u # user}

\* The callback given to onSnapshot by loadOnlineUsers, run with the uids P of
\* the users whose status is 'online' while user is signed in: the new value of
\* onlineUsers.
OnPresenceSnapshot(online, P, user) ==
    LET cleared == {}
    IN  IF P = {} THEN cleared ELSE cleared \cup {u \in P : u # user}

\* The remote store notifies a presence listener.  user.uid !==
\* this.currentUser.uid throws a TypeError on the first document when
\* this.currentUser is null, after the set has been cleared.
NotifyPresence(P) ==
    /\ presenceSubs > 0
    /\ IF P # {} /\ currentUser = NoUser
       THEN onlineUsers' = {} /\ uncaught' = TRUE
       ELSE /\ onlineUsers' = OnPresenceSnapshot(onlineUsers, P, currentUser)
            /\ UNCHANGED uncaught
    /\ UNCHANGED <<authState, currentUser, currentChannel, messageListener,
                   allMessages, msgSubs, presenceSubs, lastSnapshot, lastDelivery,
                   lastSwitch, sendVars, searchVars>>

DeliverPresence(P) ==
    /\ NotifyPresence(P)
    /\ UNCHANGED lastPresence

\* The same step, with the snapshot and what it met recorded.
DeliverPresenceTracked(P) ==
    /\ NotifyPresence(P)
    /\ lastPresence' = <<P, currentUser, onlineUsers \ P # {}>>

\* What the user can have typed into the message box: nothing, blanks only,
\* a text, a text between blanks.
TypedTexts == {<<>>, <<" ">>, <<"a">>, <<" ", "a", " ">>}

RECURSIVE TrimStart(_)
TrimStart(s) == IF s # <<>> /\ Head(s) = " " THEN TrimStart(Tail(s)) ELSE s

RECURSIVE TrimEnd(_)
TrimEnd(s) ==
    IF s # <<>> /\ s[Len(s)] = " " THEN TrimEnd(SubSeq(s, 1, Len(s) - 1)) ELSE s

\* String.prototype.trim
Trim(s) == TrimEnd(TrimStart(s))

\* The user edits the message box, which showAuthInterface disables and
\* showChatInterface enables.
TypeMessage(text) ==
    /\ authState # NoUser
    /\ messageInput' = text
    /\ UNCHANGED <<authState, currentUser, currentChannel, messageListener,
                   allMessages, onlineUsers, msgSubs, presenceSubs, uncaught,
                   lastSnapshot, lastDelivery, lastPresence, lastSwitch, pendingWrites,
                   lastSend, lastWrite, searchVars>>

\* Bug variant of sendMessage: the text is validated before it is trimmed.
SendMessageNoTrim ==
    IF currentUser = NoUser \/ messageInput = <<>>
    THEN /\ lastSend' = "ignored"
         /\ UNCHANGED <<authState, currentUser, currentChannel, messageListener,
                        allMessages, onlineUsers, msgSubs, presenceSubs, uncaught,
                        lastSnapshot, lastDelivery, lastPresence, lastSwitch, messageInput,
                        pendingWrites, lastWrite, searchVars>>
    ELSE /\ Len(pendingWrites) < MaxWrites
         /\ pendingWrites' = Append(pendingWrites,
                [text    |-> Trim(messageInput),
                 userId  |-> currentUser,
                 channel |-> currentChannel])
         /\ UNCHANGED <<authState, currentUser, currentChannel, messageListener,
                        allMessages, onlineUsers, msgSubs, presenceSubs, uncaught,
                        lastSnapshot, lastDelivery, lastPresence, lastSwitch, messageInput,
                        lastSend, lastWrite, searchVars>>

\* sendMessage up to its await: the validation, then the addDoc call.
SendMessage ==
    IF currentUser = NoUser \/ Trim(messageInput) = <<>>
    THEN /\ lastSend' = "ignored"
         /\ UNCHANGED <<authState, currentUser, currentChannel, messageListener,
                        allMessages, onlineUsers, msgSubs, presenceSubs, uncaught,
                        lastSnapshot, lastDelivery, lastPresence, lastSwitch, messageInput,
                        pendingWrites, lastWrite, searchVars>>
    ELSE /\ Len(pendingWrites) < MaxWrites
         /\ pendingWrites' = Append(pendingWrites,
                [text    |-> Trim(messageInput),
                 userId  |-> currentUser,
                 channel |-> currentChannel])
         /\ UNCHANGED <<authState, currentUser, currentChannel, messageListener,
                        allMessages, onlineUsers, msgSubs, presenceSubs, uncaught,
                        lastSnapshot, lastDelivery, lastPresence, lastSwitch, messageInput,
                        lastSend, lastWrite, searchVars>>

\* The sequence s without its i-th element.
RemoveAt(s, i) == SubSeq(s, 1, i - 1) \o SubSeq(s, i + 1, Len(s))

\* Bug variant: the document's channel is read when the write settles.
SettleLateChannel(i, v) ==
    /\ i \in DOMAIN pendingWrites
    /\ pendingWrites' = RemoveAt(pendingWrites, i)
    /\ lastWrite' = <<v, 1 - lastWrite[2], currentChannel, currentChannel>>

\* The remote store settles the i-th awaited write with verdict v: the document
\* is the one addDoc was called with.
Settle(i, v) ==
    /\ i \in DOMAIN pendingWrites
    /\ pendingWrites' = RemoveAt(pendingWrites, i)
    /\ lastWrite' = <<v, 1 - lastWrite[2], pendingWrites[i].channel, currentChannel>>

\* The store acknowledges the write: sendMessage resumes after the await.
WriteAcked(i) ==
    /\ Settle(i, "acked")
    /\ messageInput' = <<>>
    /\ lastSend' = "sent"
    /\ UNCHANGED <<authState, currentUser, currentChannel, messageListener,
                   allMessages, onlineUsers, msgSubs, presenceSubs, uncaught,
                   lastSnapshot, lastDelivery, lastPresence, lastSwitch, searchVars>>

\* Bug variant of the catch block: the input is cleared as after a success.
WriteRejectedClearsInput(i) ==
    /\ Settle(i, "rejected")
    /\ messageInput' = <<>>
    /\ lastSend' = "failed"
    /\ UNCHANGED <<authState, currentUser, currentChannel, messageListener,
                   allMessages, onlineUsers, msgSubs, presenceSubs, uncaught,
                   lastSnapshot, lastDelivery, lastPresence, lastSwitch, searchVars>>

\* The store rejects the write: sendMessage resumes in its catch block.
WriteRejected(i) ==
    /\ Settle(i, "rejected")
    /\ lastSend' = "failed"
    /\ UNCHANGED <<authState, currentUser, currentChannel, messageListener,
                   allMessages, onlineUsers, msgSubs, presenceSubs, uncaught,
                   lastSnapshot, lastDelivery, lastPresence, lastSwitch, messageInput,
                   searchVars>>

\* ------------------------------------------------------------- search

\* The characters typed into the search box: a blank and a letter in both cases.
\* The texts searched hold another letter too.
Chars == {" ", "a", "A"}

\* What the search box can hold.
SearchTerms == UNION {[1..n -> Chars] : n \in 0..MaxTerm}

\* The fields of a message document that handleSearch reads.
SearchDocs == [text : {<<"b", "A">>, <<"a">>, <<"b">>}, displayName : {<<"A">>, <<"b">>}]

\* The logs a search can meet.
SearchLogs == UNION {[1..n -> SearchDocs] : n \in 0..MaxLog}

\* String.prototype.toLowerCase
ToLowerCase(s) == [i \in DOMAIN s |-> IF s[i] = "A" THEN "a" ELSE s[i]]

\* String.prototype.includes
Includes(s, t) == \E k \in 0..(Len(s) - Len(t)) : SubSeq(s, k + 1, k + Len(t)) = t

\* Bug variant of the term: the value is not trimmed.
SearchTermNoTrim(value) == ToLowerCase(value)

\* const searchTerm = this.searchModalInput.value.toLowerCase().trim()
SearchTerm(value) == Trim(ToLowerCase(value))

\* Bug variant of the filter's predicate: the display name is not looked at.
MatchesTermTextOnly(message, searchTerm) ==
    Includes(ToLowerCase(message.text), searchTerm)

\* The predicate given to this.allMessages.filter
MatchesTerm(message, searchTerm) ==
    \/ Includes(ToLowerCase(message.text), searchTerm)
    \/ Includes(ToLowerCase(message.displayName), searchTerm)

\* Array.prototype.filter with that predicate
RECURSIVE FilterMessages(_, _)
FilterMessages(log, searchTerm) ==
    IF log = <<>> THEN <<>>
    ELSE (IF MatchesTerm(Head(log), searchTerm) THEN <<Head(log)>> ELSE <<>>)
             \o FilterMessages(Tail(log), searchTerm)

\* The 'input' event of the search box: its value is now value, handleSearch runs.
HandleSearch(value) ==
    LET searchTerm == SearchTerm(value)
        filteredMessages == FilterMessages(allMessages, searchTerm)
    IN  /\ searchInput' = value
        /\ searchResults' =
               IF searchTerm = <<>> THEN [kind |-> "enterTerm"]
               ELSE IF Len(filteredMessages) = 0 THEN [kind |-> "noResults"]
               ELSE [kind |-> "results", items |-> filteredMessages]
        /\ UNCHANGED <<authState, currentUser, currentChannel, messageListener,
                       allMessages, onlineUsers, msgSubs, presenceSubs, uncaught,
                       lastSnapshot, lastDelivery, lastPresence, lastSwitch, sendVars>>

Next ==
    \/ \E user \in Users \cup {NoUser} : OnAuthStateChanged(user)
    \/ \E c \in Channels : SwitchChannel(c)
    \/ \E h \in 1..MaxHandles, snap \in AllSnapshots : DeliverMessages(h, snap)
    \/ \E P \in SUBSET Users : DeliverPresence(P)

\* The SDK mutes a listener as soon as it is unsubscribed.
Spec == Init /\ [][Next]_vars

NextRace ==
    \/ Next
    \/ \E h \in 1..MaxHandles, snap \in AllSnapshots : DeliverStaleMessages(h, snap)

\* The remote store may still deliver what it had queued before the unsubscribe.
SpecRace == Init /\ [][NextRace]_vars

NextLog ==
    \/ \E user \in Users \cup {NoUser} : OnAuthStateChanged(user)
    \/ \E c \in Channels : SwitchChannel(c)
    \/ \E h \in 1..MaxHandles, snap \in AllSnapshots : DeliverMessagesTracked(h, snap)
    \/ \E P \in SUBSET Users : DeliverPresence(P)

\* Spec with the history of the message deliveries recorded in lastDelivery.
SpecLog == Init /\ [][NextLog]_vars

NextPresence ==
    \/ \E user \in Users \cup {NoUser} : OnAuthStateChanged(user)
    \/ \E c \in Channels : SwitchChannel(c)
    \/ \E P \in SUBSET Users : DeliverPresenceTracked(P)

\* The presence topic: the session's transitions and the presence deliveries,
\* their history recorded in lastPresence.  Message notifications, which write
\* neither onlineUsers nor a field the presence callback reads, are left out.
SpecPresence == Init /\ [][NextPresence]_vars

NextSend ==
    \/ \E user \in Users \cup {NoUser} : OnAuthStateChanged(user)
    \/ \E c \in Channels : SwitchChannel(c)
    \/ \E text \in TypedTexts : TypeMessage(text)
    \/ SendMessage
    \/ \E i \in 1..MaxWrites : WriteAcked(i)
    \/ \E i \in 1..MaxWrites : WriteRejected(i)

\* The sending of messages: the session's transitions, the message box,
\* sendMessage and the settling of its writes.  The snapshot callbacks, which
\* write no field that sendMessage reads or writes, are left out.
SpecSend == Init /\ [][NextSend]_vars

NextSwitch ==
    \/ \E user \in Users \cup {NoUser} : OnAuthStateChanged(user)
    \/ \E c \in Channels : SwitchChannelTracked(c)
    \/ \E h \in 1..MaxHandles, snap \in AllSnapshots : DeliverMessages(h, snap)
    \/ \E P \in SUBSET Users : DeliverPresence(P)

\* Spec with the calls of switchChannel recorded in lastSwitch.
SpecSwitch == Init /\ [][NextSwitch]_vars

\* A signed-in session whose message callback has filled the log.
InitSearch ==
    /\ authState = "u1"
    /\ currentUser = authState
    /\ currentChannel = DefaultChannel
    /\ messageListener = 1
    /\ allMessages \in SearchLogs
    /\ onlineUsers = {}
    /\ msgSubs = <<NewListener(DefaultChannel)>>
    /\ presenceSubs = 1
    /\ uncaught = FALSE
    /\ lastSnapshot = <<allMessages>>
    /\ lastDelivery = "none"
    /\ lastPresence = <<>>
    /\ lastSwitch = <<FALSE, 0>>
    /\ messageInput = <<>>
    /\ pendingWrites = <<>>
    /\ lastSend = "none"
    /\ lastWrite = <<"none", 0>>
    /\ searchInput = <<>>
    /\ searchResults = [kind |-> "none"]

NextSearch == \E value \in SearchTerms : HandleSearch(value)

\* handleSearch over every log and every value of the search box.
SpecSearch == InitSearch /\ [][NextSearch]_vars

\* ------------------------------------------------------------- claims

\* C1: at most one message listener is live in every reachable state, and it is
\* the one this.messageListener holds: registering a new listener leaves no
\* earlier one live.
SingleMessageSubscription ==
    /\ Cardinality(LiveMessageHandles) <= 1
    /\ LiveMessageHandles \subseteq {messageListener}

\* C1 witness: a third listener was registered while signed in, the two before
\* it are cancelled.
SingleMessageSubscriptionWitness ==
    /\ Len(msgSubs) = 3
    /\ currentUser # NoUser
    /\ Live(msgSubs[3])
    /\ ~Live(msgSubs[1]) /\ ~Live(msgSubs[2])

\* C2 (as claimed): at most one presence listener is live in every reachable
\* state, also after a second successful authentication.
SinglePresenceSubscription == presenceSubs <= 1

\* C3 (as claimed): once the sign-out event has been handled no message
\* listener and no presence listener is live, and no snapshot callback can run
\* while the session is signed out.
SignOutCancelsBothSubscriptions ==
    authState = NoUser =>
        /\ LiveMessageHandles = {}
        /\ presenceSubs = 0
        /\ ~ENABLED (\E P \in SUBSET Users : DeliverPresence(P))
        /\ ~ENABLED (\E h \in 1..MaxHandles, snap \in AllSnapshots : DeliverMessages(h, snap))

\* C4 (as claimed): whenever the session is signed out, the message log and
\* the presence set are empty (so a search has nothing cached to return).
SignOutClearsReadModels ==
    currentUser = NoUser => allMessages = <<>> /\ onlineUsers = {}

\* C5 (as claimed): a switch from the current channel to another one leaves the
\* message log empty in the state right after switchChannel returns.
SwitchChannelResetsLog ==
    [][currentUser # NoUser /\ currentChannel' # currentChannel
         => allMessages' = <<>>]_vars

\* C6 (as claimed): a notification delivered for a listener that was cancelled
\* before (the step that drains it) leaves the message log unchanged.
StaleNotificationIsDropped ==
    [][(\E h \in DOMAIN msgSubs :
           msgSubs[h].state = "cancelled" /\ msgSubs'[h].state = "drained")
         => allMessages' = allMessages]_vars

\* C7: every live message listener filters on currentChannel, the channel
\* requested last, and no two live listeners filter on it.
LiveSubscriptionFollowsCurrentChannel ==
    /\ \A h \in LiveMessageHandles : msgSubs[h].channel = currentChannel
    /\ Cardinality({h \in LiveMessageHandles : msgSubs[h].channel = currentChannel}) <= 1

\* C7 witness: two switches in a row, each requested before any snapshot had
\* been delivered to the listener before it.
ReentrantSwitchWitness ==
    /\ lastSnapshot = <<>>
    /\ Len(msgSubs) = 3
    /\ msgSubs[1].channel # msgSubs[2].channel
    /\ msgSubs[2].channel # msgSubs[3].channel
    /\ LiveMessageHandles = {3}
    /\ currentChannel = msgSubs[3].channel

\* C8: after the message callback has run with a snapshot S the log is exactly
\* S, whatever the log held before.
LogIsLatestSnapshot ==
    lastSnapshot # <<>> => allMessages = lastSnapshot[1]

\* C8 witness: the last snapshot lacked a record the log held, and another
\* record is in the log now.
LogRetractionWitness ==
    /\ lastDelivery = "retract"
    /\ allMessages # <<>>

SameSnapshotTwiceChangesNothing ==
    [][lastSnapshot # <<>> /\ lastSnapshot' = lastSnapshot
         => allMessages' = allMessages]_vars

\* C10 witness: a non-empty snapshot has just been applied for the second time
\* in a row.
SameSnapshotTwiceWitness ==
    /\ lastDelivery = "repeat"
    /\ Len(lastSnapshot[1]) >= 2

\* C11 (as claimed): while a user is signed in, the presence set does not hold
\* that user's own id, also after a sign-out followed by another user's sign-in.
PresenceExcludesSelf ==
    currentUser # NoUser => currentUser \notin onlineUsers

\* C13 (as claimed): every successful authentication binds the session to the
\* default channel: after the sign-in event currentChannel is 'ideas' and the
\* listener it opened filters on 'ideas'.
SignInBindsDefaultChannel ==
    [][authState' \in Users /\ authState \notin Users
         => /\ currentChannel' = DefaultChannel
            /\ msgSubs'[messageListener'].channel = DefaultChannel]_vars

\* C14 (as claimed): no snapshot callback ever lets an exception escape.
NoExceptionEscapesCallback == uncaught = FALSE

\* C12: after the presence callback has run, while a user u was signed in,
\* with a snapshot P, the presence set is exactly the ids of P other than u;
\* nothing of an earlier snapshot is left in it.
PresenceIsLatestSnapshot ==
    lastPresence # <<>> /\ lastPresence[2] # NoUser
        => onlineUsers = lastPresence[1] \ {lastPresence[2]}

\* C12 witness: the last snapshot, delivered to the signed-in user, held that
\* user and lacked an id the set held before: the set is empty now.
PresenceLatestWitness ==
    /\ currentUser # NoUser
    /\ lastPresence = <<{currentUser}, currentUser, TRUE>>
    /\ onlineUsers = {}

\* C19: cancelling the message subscription while this.messageListener holds
\* none is a no-op.  A sign-out event handled with no handle held changes no
\* registered listener, leaves the field empty and raises nothing; a
\* registration made with no handle held (the clearMessageListener at the head
\* of loadMessages) changes no listener registered before; and no unsubscribe
\* function is ever called a second time.
ClearWithoutListenerIsNoOp ==
    [][/\ messageListener = NoListener /\ authState' # authState /\ authState' = NoUser
            => /\ msgSubs' = msgSubs
               /\ messageListener' = NoListener
               /\ uncaught' = uncaught
       /\ messageListener = NoListener /\ Len(msgSubs') > Len(msgSubs)
            => SubSeq(msgSubs', 1, Len(msgSubs)) = msgSubs
       /\ \A h \in DOMAIN msgSubs' : msgSubs'[h].calls <= 1]_vars

\* C19 witness: sign-in, sign-out, sign-in with no switch in between.  The
\* sign-out called the first listener's unsubscribe function, and the second
\* loadMessages ran clearMessageListener again with no handle held.
ClearTwiceWitness ==
    /\ presenceSubs = 2
    /\ Len(msgSubs) = 2
    /\ msgSubs[1].calls = 1
    /\ Live(msgSubs[2])

\* C20: a step of switchChannel (the session stays as it is and
\* this.messageListener is replaced) changes neither the presence listeners nor
\* the presence set.
SwitchChannelLeavesPresence ==
    [][authState' = authState /\ messageListener' # messageListener
         => presenceSubs' = presenceSubs /\ onlineUsers' = onlineUsers]_vars

\* C20 witness: a signed-in session that left the default channel and shows a
\* presence set, fed by the one presence listener of its sign-in.
SwitchKeepsPresenceWitness ==
    /\ currentUser # NoUser
    /\ currentChannel # DefaultChannel
    /\ presenceSubs = 1
    /\ onlineUsers # {}

\* A text of blanks only, the empty text included.
BlankText(s) == \A i \in DOMAIN s : s[i] = " "

\* C15: while no user is signed in or the text of the message box is blank, no
\* step issues a write; and the sendMessage call that returns at its validation
\* leaves the log, the current channel, the subscriptions, the message box and
\* the awaited writes as they were.
SendMessageValidates ==
    [][/\ currentUser = NoUser \/ BlankText(messageInput)
            => Len(pendingWrites') <= Len(pendingWrites)
       /\ lastSend' = "ignored" /\ lastSend # "ignored"
            => /\ currentUser = NoUser \/ BlankText(messageInput)
               /\ UNCHANGED <<allMessages, currentChannel, messageListener, msgSubs,
                              presenceSubs, messageInput, pendingWrites>>]_vars

\* C15 witness: signed in, a sendMessage call was ignored for blanks in the
\* message box while an earlier write is still awaited.
IgnoredSendWitness ==
    /\ currentUser # NoUser
    /\ lastSend = "ignored"
    /\ messageInput = <<" ">>
    /\ Len(pendingWrites) = 1

\* C16: the step in which the store rejects a write ends sendMessage as
\* "failed", which is not how an acknowledged write ends; it leaves the log and
\* the message box as they were and starts no write (the rejected write is gone,
\* the other awaited writes are the ones awaited before).  The message box is
\* cleared by the program only in the step in which a write is acknowledged.
RejectedWriteIsSurfaced ==
    [][/\ lastWrite' # lastWrite /\ lastWrite'[1] = "rejected"
            => /\ lastSend' = "failed"
               /\ allMessages' = allMessages
               /\ messageInput' = messageInput
               /\ \E i \in DOMAIN pendingWrites :
                      pendingWrites' = RemoveAt(pendingWrites, i)
       /\ lastWrite' # lastWrite /\ lastWrite'[1] = "acked"
            => lastSend' = "sent"
       /\ messageInput' # messageInput /\ pendingWrites' # pendingWrites
            => lastWrite' # lastWrite /\ lastWrite'[1] = "acked"]_vars

\* C16 witness: a write was rejected, the failure is shown and the text that
\* was sent is still in the message box.
RejectedWriteWitness ==
    /\ lastWrite[1] = "rejected"
    /\ lastSend = "failed"
    /\ messageInput = <<" ", "a", " ">>
    /\ pendingWrites = <<>>

\* Two characters that are the same letter, whatever their case.
SameLetter(c, d) == c = d \/ {c, d} = {"a", "A"}

\* The term a search box value stands for: the value from its first to its last
\* character that is not a blank.
TermOf(value) ==
    LET solid == {i \in DOMAIN value : value[i] # " "}
    IN  IF solid = {} THEN <<>>
        ELSE SubSeq(value, CHOOSE i \in solid : \A j \in solid : i <= j,
                           CHOOSE i \in solid : \A j \in solid : j <= i)

\* s contains t as a substring, the case of the letters ignored.
ContainsIgnoringCase(s, t) ==
    \E k \in 0..(Len(s) - Len(t)) : \A j \in 1..Len(t) : SameLetter(s[k + j], t[j])

\* The positions of the log whose message matches the search box value.
MatchingPositions(log, value) ==
    {i \in DOMAIN log : \/ ContainsIgnoringCase(log[i].text, TermOf(value))
                        \/ ContainsIgnoringCase(log[i].displayName, TermOf(value))}

\* C17: once a search has run, what it shows is the 'enter a term' sentinel
\* exactly when the search box is blank, the 'no results' sentinel exactly when
\* it is not blank and no message of the log matches, and a list otherwise, and
\* that list is never empty.
SearchSentinelStates ==
    searchResults.kind # "none" =>
        LET blank   == BlankText(searchInput)
            matches == MatchingPositions(allMessages, searchInput)
        IN  /\ searchResults.kind \in {"enterTerm", "noResults", "results"}
            /\ searchResults.kind = "enterTerm" <=> blank
            /\ searchResults.kind = "noResults" <=> ~blank /\ matches = {}
            /\ searchResults.kind = "results" <=> ~blank /\ matches # {}
            /\ searchResults.kind = "results" => searchResults.items # <<>>

\* C17 witness: a search box of blanks only over a log that holds messages
\* shows the 'enter a term' sentinel.
BlankTermWitness ==
    /\ searchInput = <<" ", " ">>
    /\ allMessages # <<>>
    /\ searchResults.kind = "enterTerm"

\* The k-th smallest element of the set S of numbers.
KthOf(S, k) == CHOOSE i \in S : Cardinality({j \in S : j < i}) = k - 1

\* C18: once a search has run with a search box that is not blank, what it
\* shows is the subsequence of the log made of the messages whose text or
\* display name contains the term, case ignored: as many items as matching
\* messages, in the log's order.  And the log is still the snapshot its callback
\* was handed last: the search has not modified it.
SearchMatchesInLogOrder ==
    searchResults.kind # "none" =>
        /\ allMessages = lastSnapshot[1]
        /\ ~BlankText(searchInput) =>
               LET matches == MatchingPositions(allMessages, searchInput)
                   items   == IF searchResults.kind = "results"
                              THEN searchResults.items ELSE <<>>
               IN  /\ Len(items) = Cardinality(matches)
                   /\ \A k \in DOMAIN items : items[k] = allMessages[KthOf(matches, k)]

\* C18 witness: the value "A " found two different messages, the first by its
\* display name only and the second by its text only, both in another case.
SearchByNameAndTextWitness ==
    /\ searchInput = <<"A", " ">>
    /\ searchResults.kind = "results"
    /\ searchResults.items = allMessages
    /\ Len(allMessages) = 2
    /\ allMessages[1] = [text |-> <<"b">>, displayName |-> <<"A">>]
    /\ allMessages[2] = [text |-> <<"a">>, displayName |-> <<"b">>]

\* C22: a call of switchChannel made while no user is signed in leaves the
\* current channel, the message log, the presence set and the registered
\* listeners as they were; no message listener is held before it and none
\* after it.
SignedOutSwitchHasNoEffect ==
    [][lastSwitch' # lastSwitch /\ currentUser = NoUser
         => /\ currentChannel' = currentChannel
            /\ allMessages' = allMessages
            /\ onlineUsers' = onlineUsers
            /\ msgSubs' = msgSubs
            /\ presenceSubs' = presenceSubs
            /\ messageListener = NoListener
            /\ messageListener' = NoListener]_vars

\* C22 witness: one sign-in, a switch to the other channel, a sign-out, then a
\* call of switchChannel (the last call met no user), the log and the presence
\* set of the session that ended still filled.
SignedOutSwitchWitness ==
    /\ authState = NoUser
    /\ lastSwitch[1] = FALSE
    /\ presenceSubs = 1
    /\ Len(msgSubs) = 2
    /\ msgSubs[1].channel # msgSubs[2].channel
    /\ allMessages # <<>>
    /\ onlineUsers # {}

\* C21: the document of a write carries the channel that was current when
\* sendMessage was called.  The call awaits a write whose channel is the current
\* one; a change of the current channel changes no awaited write; the document
\* the store acknowledges has the channel of the awaited write it settles; and
\* no snapshot that a listener on another channel can be handed holds a
\* document of that channel.
WriteKeepsInvocationChannel ==
    [][/\ Len(pendingWrites') > Len(pendingWrites)
            => /\ SubSeq(pendingWrites', 1, Len(pendingWrites)) = pendingWrites
               /\ pendingWrites'[Len(pendingWrites')].channel = currentChannel
       /\ currentChannel' # currentChannel => pendingWrites' = pendingWrites
       /\ lastWrite' # lastWrite /\ lastWrite'[1] = "acked"
            => /\ \E i \in DOMAIN pendingWrites :
                      /\ pendingWrites' = RemoveAt(pendingWrites, i)
                      /\ lastWrite'[3] = pendingWrites[i].channel
               /\ \A c \in Channels \ {lastWrite'[3]} :
                      \A snap \in Snapshots[c] :
                          \A j \in DOMAIN snap : snap[j].channel # lastWrite'[3]]_vars

\* C21 witness: a write was acknowledged after the channel had been switched
\* while it was awaited: its document is in the channel it was sent from, which
\* is not the channel shown.
SwitchInFlightWitness ==
    /\ lastWrite[1] = "acked"
    /\ lastWrite[3] # lastWrite[4]
    /\ currentChannel = lastWrite[4]
    /\ currentUser # NoUser

====
